---- MODULE Spec2Model ----
(***************************************************************************)
(* Model of python/ase/pyspglib/spglib.py: the ASE facade over the native  *)
(* _spglib extension.  Every public function is one action.  An action     *)
(* builds the buffers the function allocates, hands them to the native     *)
(* routine (which chooses a return value and may overwrite every buffer    *)
(* it is handed), and slices / reshapes the buffers into the result.       *)
(*                                                                         *)
(* Arrays are numpy-like records [shape, data] with row-major flat data.   *)
(* Objects live in a heap keyed by reference; .copy() and np.array()       *)
(* allocate a fresh reference, everything else passes the reference on.    *)
(* Floating-point entries are represented by small integers; the scalar    *)
(* pass-through arguments symprec and angle_tolerance are not modelled.    *)
(***************************************************************************)
EXTENDS Integers, Sequences, FiniteSets, TLC

VARIABLES defaults, op, calls, caller_before, caller_after,
          nat_in, nat_out, nat_ret, result

vars == <<defaults, op, calls, caller_before, caller_after,
          nat_in, nat_out, nat_ret, result>>

\* ------------------------------------------------------------- bounds
MaxAtoms == 2
MaxMesh == 2
MaxSeed == 2
MaxQpoints == 2

\* ------------------------------------------------------ numpy helpers
Min(a, b) == IF a < b THEN a ELSE b
Max(a, b) == IF a > b THEN a ELSE b

RECURSIVE Prod(_)
Prod(s) == IF s = <<>> THEN 1 ELSE Head(s) * Prod(Tail(s))

Arr(shape, data) == [shape |-> shape, data |-> data]

Zeros(shape) == Arr(shape, [i \in 1..Prod(shape) |-> 0])

RowLen(a) == Prod(Tail(a.shape))

\* Python's normalisation of the stop of a[:k] for a sequence of n items.
PyStop(k, n) == IF k < 0 THEN Max(n + k, 0) ELSE Min(k, n)

\* Mutant: the slice drops its last row.
SliceRows_short(a, k) ==
    LET m == Max(PyStop(k, a.shape[1]) - 1, 0)
    IN Arr(<<m>> \o Tail(a.shape), SubSeq(a.data, 1, m * RowLen(a)))

\* a[:k] on the first axis.
SliceRows(a, k) ==
    LET m == PyStop(k, a.shape[1])
    IN Arr(<<m>> \o Tail(a.shape), SubSeq(a.data, 1, m * RowLen(a)))

\* a[:k] = b on the first axis (b holds exactly the k rows assigned).
AssignRows(a, k, b) ==
    LET m == PyStop(k, a.shape[1]) * RowLen(a)
    IN Arr(a.shape, [i \in 1..Len(a.data) |->
                        IF i <= m THEN b.data[i] ELSE a.data[i]])

\* Mutant: the transposition is left out.
Transpose_none(a) == a

\* ndarray.T of a two-dimensional array.
Transpose(a) ==
    LET r == a.shape[1]
        c == a.shape[2]
    IN Arr(<<c, r>>, [i \in 1..(r * c) |->
                        a.data[((i - 1) % r) * c + ((i - 1) \div r) + 1]])

\* Mutant: no copy is taken, the source object itself is passed on.
Copy_alias(src, fresh) == src

\* ndarray.copy(): the reference of the result, a freshly allocated object.
Copy(src, fresh) == fresh

\* Mutant: np.asarray semantics, an array of the right dtype is passed on.
NpArray_alias(src, fresh) == src

\* np.array(x, dtype=...): copies by default, the result is a new object.
NpArray(src, fresh) == fresh

\* Binds reference ref to value val in heap h.
Store(h, ref, val) == (ref :> val) @@ h

BoolToInt(b) == IF b THEN 1 ELSE 0

\* ------------------------------------------------- the native library
\* What the native library leaves in entry i of a buffer it overwrites.
Scribble(s, i) == ((s * i + s) % 5) + 1

Scribbled(a, s) == Arr(a.shape, [i \in 1..Len(a.data) |-> Scribble(s, i)])

\* The native routine is handed the objects refs; with s = 0 it leaves
\* them alone, otherwise it overwrites every one of them.
NativeCall(h, refs, s) ==
    [r \in DOMAIN h |-> IF r \in refs /\ s > 0 THEN Scribbled(h[r], s)
                        ELSE h[r]]

Seeds == 0..MaxSeed

ArgRefs(args) == {args[a] : a \in DOMAIN args}

\* ------------------------------------------------ the caller's inputs
Cells == { <<1, 0, 0, 0, 1, 0, 0, 0, 1>>,
           <<1, 2, 3, 4, 5, 6, 7, 8, 9>>,
           <<2, 0, 0, 1, 2, 0, 0, 0, 3>> }

NumberKinds == {0, 1}

\* An Atoms object: the arrays its getters hand out.
Bulk(n, cell, kind) ==
    ( "bulk.cell"      :> Arr(<<3, 3>>, cell) @@
      "bulk.positions" :> Arr(<<n, 3>>, [i \in 1..(3 * n) |-> 6 + (i % 3)]) @@
      "bulk.numbers"   :> Arr(<<n>>, [i \in 1..n |-> 7 + kind * i]) @@
      "bulk.magmoms"   :> Arr(<<n>>, [i \in 1..n |-> 6 + (i % 2)]) )

Bulks == { Bulk(n, c, k) : n \in 1..MaxAtoms, c \in Cells, k \in NumberKinds }

get_number_of_atoms(bulk) == bulk["bulk.numbers"].shape[1]

Meshes == { <<a, b, c>> : a \in 1..MaxMesh, b \in 1..MaxMesh, c \in 1..MaxMesh }

\* ------------------------------------------------------ module state
DefaultIds == {"ir.is_shift", "bz.is_shift", "stab.is_shift", "stab.qpoints"}

None == [none |-> TRUE]

NoObjs == [x \in {} |-> None]

Init ==
    /\ defaults = ( "ir.is_shift"   :> Zeros(<<3>>) @@
                    "bz.is_shift"   :> Zeros(<<3>>) @@
                    "stab.is_shift" :> Zeros(<<3>>) @@
                    "stab.qpoints"  :> Arr(<<0>>, <<>>) )
    /\ op = "none"
    /\ calls = <<>>
    /\ caller_before = NoObjs
    /\ caller_after = NoObjs
    /\ nat_in = NoObjs
    /\ nat_out = NoObjs
    /\ nat_ret = None
    /\ result = None

Idle == op = "none"

\* The end of every public function: caller are the caller's objects at
\* entry, h0 / h1 the heap right before / after the native routines ran,
\* args the buffers handed over (parameter name -> reference).
Return(name, routines, caller, h0, h1, args, ret, res) ==
    /\ op' = name
    /\ calls' = routines
    /\ caller_before' = caller
    /\ caller_after' = [c \in DOMAIN caller |-> h1[c]]
    /\ defaults' = [d \in DefaultIds |-> h1[d]]
    /\ nat_in' = [a \in DOMAIN args |-> h0[args[a]]]
    /\ nat_out' = [a \in DOMAIN args |-> h1[args[a]]]
    /\ nat_ret' = ret
    /\ result' = res

\* ------------------------------------------------------- get_symmetry
\* Mutant: the spin branch falls through into the plain call.
get_symmetry_routines_both(use_magmoms) ==
    IF use_magmoms THEN <<"symmetry_with_collinear_spin", "symmetry">>
    ELSE <<"symmetry">>

get_symmetry_routines(use_magmoms) ==
    IF use_magmoms THEN <<"symmetry_with_collinear_spin">>
    ELSE <<"symmetry">>

get_symmetry(bulk, use_magmoms, num_sym, s) ==
    LET positions == Copy("bulk.positions", "positions")
        lattice == Copy("bulk.cell", "lattice")
        numbers == Copy(NpArray("bulk.numbers", "intc"), "numbers")
        multi == 48 * get_number_of_atoms(bulk)
        h0 == Store(Store(Store(Store(Store(bulk @@ defaults,
                  positions, bulk["bulk.positions"]),
                  lattice, Transpose(bulk["bulk.cell"])),
                  numbers, bulk["bulk.numbers"]),
                  "rotation", Zeros(<<multi, 3, 3>>)),
                  "translation", Zeros(<<multi, 3>>))
        base == ( "rotation" :> "rotation" @@ "translation" :> "translation" @@
                  "lattice" :> lattice @@ "positions" :> positions @@
                  "numbers" :> numbers )
        args == IF use_magmoms THEN ("magmoms" :> "bulk.magmoms") @@ base
                ELSE base
        routines == get_symmetry_routines(use_magmoms)
        h1 == NativeCall(h0, ArgRefs(args), s)
    IN Return("get_symmetry", routines, bulk, h0, h1, args, num_sym,
              [rotations |-> SliceRows(h1["rotation"], num_sym),
               translations |-> SliceRows(h1["translation"], num_sym)])

\* ----------------------------------------------- get_symmetry_dataset
\* Strings are sequences of one-character strings.
\* Mutant: the upper-case half comes first.
letters_upper_first ==
           << "A", "B", "C", "D", "E", "F", "G", "H", "I", "J", "K", "L", "M",
              "N", "O", "P", "Q", "R", "S", "T", "U", "V", "W", "X", "Y", "Z",
              "a", "b", "c", "d", "e", "f", "g", "h", "i", "j", "k", "l", "m",
              "n", "o", "p", "q", "r", "s", "t", "u", "v", "w", "x", "y", "z" >>

letters == << "a", "b", "c", "d", "e", "f", "g", "h", "i", "j", "k", "l", "m",
              "n", "o", "p", "q", "r", "s", "t", "u", "v", "w", "x", "y", "z",
              "A", "B", "C", "D", "E", "F", "G", "H", "I", "J", "K", "L", "M",
              "N", "O", "P", "Q", "R", "S", "T", "U", "V", "W", "X", "Y", "Z" >>

\* seq[x] with Python's zero-based index (negative x counts from the end).
PyIndex(seq, x) == IF x < 0 THEN seq[Len(seq) + x + 1] ELSE seq[x + 1]

RECURSIVE LStrip(_)
LStrip(str) == IF str # <<>> /\ Head(str) = " " THEN LStrip(Tail(str)) ELSE str

RECURSIVE RStrip(_)
RStrip(str) ==
    IF str # <<>> /\ str[Len(str)] = " "
    THEN RStrip(SubSeq(str, 1, Len(str) - 1)) ELSE str

\* str.strip()
Strip(str) == RStrip(LStrip(str))

keys == << "number", "international", "hall", "transformation_matrix",
           "origin_shift", "rotations", "translations", "wyckoffs",
           "equivalent_atoms" >>

\* dict filled by "for key, data in zip(ks, vals): d[key] = data".
ZipDict(ks, vals) ==
    LET n == Min(Len(ks), Len(vals))
    IN [k \in {ks[i] : i \in 1..n} |->
            vals[CHOOSE i \in 1..n : ks[i] = k /\ \A j \in (i + 1)..n : ks[j] # k]]

\* [letters[x] for x in wyckoffs]
WyckoffLetters(wyckoffs) ==
    [i \in 1..Len(wyckoffs) |-> PyIndex(letters, wyckoffs[i])]

\* The nine values spg.dataset returns for a cell of n atoms.
SpaceGroups == { <<1, <<"P", "1", " ", " ">>, <<" ", "P", " ", "1", " ">>>>,
                 <<225, <<" ", "F", "m", "-", "3", "m">>, <<"-", "F", " ", "4">>>> }

NativeDataset(n, sg, x, y) ==
    << sg[1], sg[2], sg[3],
       Arr(<<3, 3>>, <<1, 0, 0, 0, 1, 0, 0, 0, 1>>),
       Arr(<<3>>, <<0, 5, 0>>),
       Arr(<<1, 3, 3>>, <<1, 0, 0, 0, 1, 0, 0, 0, 1>>),
       Arr(<<1, 3>>, <<0, 0, 0>>),
       [i \in 1..n |-> IF i % 2 = 1 THEN x ELSE y],
       Arr(<<n>>, [i \in 1..n |-> 0]) >>

WyckoffIndices == 0..(Len(letters) - 1)

\* The second Wyckoff index the native result pairs with index x.
WyckoffPartners(x) ==
    {x, (x + 1) % Len(letters), (x + 26) % Len(letters), Len(letters) - 1 - x}

get_symmetry_dataset(bulk, data, s) ==
    LET positions == Copy("bulk.positions", "positions")
        lattice == Copy("bulk.cell", "lattice")
        numbers == Copy(NpArray("bulk.numbers", "intc"), "numbers")
        h0 == Store(Store(Store(bulk @@ defaults,
                  positions, bulk["bulk.positions"]),
                  lattice, Transpose(bulk["bulk.cell"])),
                  numbers, bulk["bulk.numbers"])
        args == ( "lattice" :> lattice @@ "positions" :> positions @@
                  "numbers" :> numbers )
        h1 == NativeCall(h0, ArgRefs(args), s)
        dataset == ZipDict(keys, data)
    IN Return("get_symmetry_dataset", <<"dataset">>, bulk, h0, h1, args, data,
              [k \in DOMAIN dataset |->
                  CASE k = "international" -> Strip(dataset[k])
                    [] k = "hall" -> Strip(dataset[k])
                    [] k = "wyckoffs" -> WyckoffLetters(dataset[k])
                    [] OTHER -> dataset[k]])

\* ----------------------------------------------------- get_spacegroup
SpacegroupStrings == { <<"P", "1", " ", "(", "1", ")">>,
                       <<"F", "m", "-", "3", "m", " ", "(", "2", "2", "5", ")">> }

get_spacegroup(bulk, ret, s) ==
    LET lattice == Copy("bulk.cell", "lattice")
        positions == Copy("bulk.positions", "positions")
        numbers == Copy(NpArray("bulk.numbers", "intc"), "numbers")
        h0 == Store(Store(Store(bulk @@ defaults,
                  lattice, Transpose(bulk["bulk.cell"])),
                  positions, bulk["bulk.positions"]),
                  numbers, bulk["bulk.numbers"])
        args == ( "lattice" :> lattice @@ "positions" :> positions @@
                  "numbers" :> numbers )
        h1 == NativeCall(h0, ArgRefs(args), s)
    IN Return("get_spacegroup", <<"spacegroup">>, bulk, h0, h1, args, ret, ret)

\* ----------------------------------------------------- get_pointgroup
\* Rotation lists the callers pass: n matrices of 3 x 3.
Rotations(n) == Arr(<<n, 3, 3>>, [i \in 1..(9 * n) |-> IF i % 4 = 1 THEN 1 ELSE 0])

RotationLists == { Rotations(n) : n \in 1..2 }

PointGroups == { << <<"1">>, 1 >>, << <<"m", "-", "3", "m">>, 32 >> }

get_pointgroup(rotations, ret, s) ==
    LET caller == "arg.rotations" :> rotations
        rot == Copy(NpArray("arg.rotations", "intc"), "rotations")
        h0 == Store(caller @@ defaults, rot, rotations)
        args == "rotations" :> rot
        h1 == NativeCall(h0, ArgRefs(args), s)
    IN Return("get_pointgroup", <<"pointgroup">>, caller, h0, h1, args, ret, ret)

\* -------------------------------------------------------- refine_cell
\* Mutant: room for twice the input atoms only.
RefineCapacity_twice(num_atom) == num_atom * 2

\* Rows of the pos and numbers buffers (lines 164 and 167).
RefineCapacity(num_atom) == num_atom * 4

refine_cell(bulk, num_atom_bravais, s) ==
    LET num_atom == get_number_of_atoms(bulk)
        lattice == Copy("bulk.cell", "lattice")
        h0 == Store(Store(Store(bulk @@ defaults,
                  lattice, Transpose(bulk["bulk.cell"])),
                  "pos", AssignRows(Zeros(<<RefineCapacity(num_atom), 3>>), num_atom,
                                    bulk["bulk.positions"])),
                  "numbers", AssignRows(Zeros(<<RefineCapacity(num_atom)>>), num_atom,
                                        bulk["bulk.numbers"]))
        args == ( "lattice" :> lattice @@ "pos" :> "pos" @@
                  "numbers" :> "numbers" )
        h1 == NativeCall(h0, ArgRefs(args), s)
    IN Return("refine_cell", <<"refine_cell">>, bulk, h0, h1, args,
              num_atom_bravais,
              <<Transpose(h1[lattice]),
                SliceRows(h1["pos"], num_atom_bravais),
                SliceRows(h1["numbers"], num_atom_bravais)>>)

\* ----------------------------------------------------- find_primitive
\* Mutant: a count of zero is taken for a primitive cell.
FoundPrimitive_ge(num_atom_prim) == num_atom_prim >= 0

\* Line 198: the native search found a primitive cell.
FoundPrimitive(num_atom_prim) == num_atom_prim > 0

find_primitive(bulk, num_atom_prim, s) ==
    LET positions == Copy("bulk.positions", "positions")
        lattice == Copy("bulk.cell", "lattice")
        numbers == Copy(NpArray("bulk.numbers", "intc"), "numbers")
        h0 == Store(Store(Store(bulk @@ defaults,
                  positions, bulk["bulk.positions"]),
                  lattice, Transpose(bulk["bulk.cell"])),
                  numbers, bulk["bulk.numbers"])
        args == ( "lattice" :> lattice @@ "positions" :> positions @@
                  "numbers" :> numbers )
        h1 == NativeCall(h0, ArgRefs(args), s)
    IN Return("find_primitive", <<"primitive">>, bulk, h0, h1, args,
              num_atom_prim,
              IF FoundPrimitive(num_atom_prim)
              THEN <<Transpose(h1[lattice]),
                     SliceRows(h1[positions], num_atom_prim),
                     SliceRows(h1[numbers], num_atom_prim)>>
              ELSE <<None, None, None>>)

\* --------------------------------------------- get_ir_reciprocal_mesh
\* The is_shift argument: the def's shared default object, or an array of
\* the caller's.  The reference the function body sees under is_shift.
IsShiftRef(default_ref, use_default) ==
    IF use_default THEN default_ref ELSE "arg.is_shift"

CallerIsShift(use_default) ==
    IF use_default THEN NoObjs ELSE "arg.is_shift" :> Arr(<<3>>, <<1, 0, 1>>)

get_ir_reciprocal_mesh(mesh, bulk, use_default, is_time_reversal, s) ==
    LET caller == ("arg.mesh" :> Arr(<<3>>, mesh)) @@ CallerIsShift(use_default)
                    @@ bulk
        is_shift == IsShiftRef("ir.is_shift", use_default)
        hA == caller @@ defaults
        r_mesh == Copy(NpArray("arg.mesh", "mesh.intc"), "mesh")
        r_shift == Copy(NpArray(is_shift, "is_shift.intc"), "is_shift")
        lattice == Copy("bulk.cell", "lattice")
        positions == Copy("bulk.positions", "positions")
        numbers == Copy(NpArray("bulk.numbers", "intc"), "numbers")
        h0 == Store(Store(Store(Store(Store(Store(Store(hA,
                  "mapping", Zeros(<<Prod(mesh)>>)),
                  "mesh_points", Zeros(<<Prod(mesh), 3>>)),
                  r_mesh, hA["arg.mesh"]),
                  r_shift, hA[is_shift]),
                  lattice, Transpose(bulk["bulk.cell"])),
                  positions, bulk["bulk.positions"]),
                  numbers, bulk["bulk.numbers"])
        args == ( "mesh_points" :> "mesh_points" @@ "mapping" :> "mapping" @@
                  "mesh" :> r_mesh @@ "is_shift" :> r_shift @@
                  "lattice" :> lattice @@ "positions" :> positions @@
                  "numbers" :> numbers )
        h1 == NativeCall(h0, ArgRefs(args), s)
    IN Return("get_ir_reciprocal_mesh", <<"ir_reciprocal_mesh">>, caller,
              h0, h1, args, BoolToInt(is_time_reversal),
              <<h1["mapping"], h1["mesh_points"]>>)

\* ------------------------------------------- relocate_BZ_grid_address
GridAddress(mesh) ==
    Arr(<<Prod(mesh), 3>>, [i \in 1..(3 * Prod(mesh)) |-> 6 + (i % 2)])

\* Rows of bz_grid_address (line 261).
BZGridRows(mesh) == (mesh[1] + 1) * (mesh[2] + 1) * (mesh[3] + 1)

\* Mutant: the factor 2 is applied once, not per axis.
BZMapSize_once(mesh) == 2 * mesh[1] * mesh[2] * mesh[3]

\* Entries of bz_map (line 263).
BZMapSize(mesh) == (2 * mesh[1]) * (2 * mesh[2]) * (2 * mesh[3])

relocate_BZ_grid_address(mesh, reciprocal_lattice, use_default, num_bz_ir, s) ==
    LET caller == ("arg.grid_address" :> GridAddress(mesh)) @@
                  ("arg.mesh" :> Arr(<<3>>, mesh)) @@
                  ("arg.reciprocal_lattice" :> Arr(<<3, 3>>, reciprocal_lattice))
                  @@ CallerIsShift(use_default)
        is_shift == IsShiftRef("bz.is_shift", use_default)
        hA == caller @@ defaults
        r_mesh == Copy(NpArray("arg.mesh", "mesh.intc"), "mesh")
        r_lat == Copy(NpArray("arg.reciprocal_lattice", "reciprocal_lattice.double"),
                      "reciprocal_lattice")
        r_shift == Copy(NpArray(is_shift, "is_shift.intc"), "is_shift")
        h0 == Store(Store(Store(Store(Store(hA,
                  "bz_grid_address",
                  Zeros(<<BZGridRows(mesh), 3>>)),
                  "bz_map",
                  Zeros(<<BZMapSize(mesh)>>)),
                  r_mesh, hA["arg.mesh"]),
                  r_lat, hA["arg.reciprocal_lattice"]),
                  r_shift, hA[is_shift])
        args == ( "bz_grid_address" :> "bz_grid_address" @@ "bz_map" :> "bz_map" @@
                  "grid_address" :> "arg.grid_address" @@ "mesh" :> r_mesh @@
                  "reciprocal_lattice" :> r_lat @@ "is_shift" :> r_shift )
        h1 == NativeCall(h0, ArgRefs(args), s)
    IN Return("relocate_BZ_grid_address", <<"BZ_grid_address">>, caller,
              h0, h1, args, num_bz_ir,
              <<SliceRows(h1["bz_grid_address"], num_bz_ir), h1["bz_map"]>>)

\* ------------------------------------- get_stabilized_reciprocal_mesh
\* The q-point arguments callers pass: a single 3-vector, an empty list,
\* or n >= 1 points shaped n x 3.
QpointArgs ==
    { Arr(<<3>>, <<1, 2, 3>>), Arr(<<0>>, <<>>) } \cup
    { Arr(<<n, 3>>, [i \in 1..(3 * n) |-> i]) : n \in 1..MaxQpoints }

\* Mutant: a single 3-vector is not wrapped into a list.
NormalizeQpoints_nowrap(q) ==
    IF q.shape = <<0>> THEN Arr(<<1, 3>>, <<0, 0, 0>>) ELSE q

\* Lines 290-294: the q-points after the two shape tests.
NormalizeQpoints(q) ==
    LET q1 == IF q.shape = <<3>> THEN Arr(<<1, 3>>, q.data) ELSE q
    IN IF q1.shape = <<0>> THEN Arr(<<1, 3>>, <<0, 0, 0>>) ELSE q1

get_stabilized_reciprocal_mesh(mesh, rotations, use_default, is_time_reversal, use_default_q, qarg, s) ==
    LET caller == ("arg.mesh" :> Arr(<<3>>, mesh)) @@
                  ("arg.rotations" :> rotations) @@ CallerIsShift(use_default) @@
                  (IF use_default_q THEN NoObjs ELSE "arg.qpoints" :> qarg)
        is_shift == IsShiftRef("stab.is_shift", use_default)
        qref == IF use_default_q THEN "stab.qpoints" ELSE "arg.qpoints"
        hA == caller @@ defaults
        q0 == Copy(NpArray(qref, "qpoints.double"), "qpoints")
        r_q == NpArray(q0, "qpoints.native")
        r_mesh == Copy(NpArray("arg.mesh", "mesh.intc"), "mesh")
        r_shift == NpArray(is_shift, "is_shift")
        r_rot == Copy(NpArray("arg.rotations", "rotations.intc"), "rotations")
        h0 == Store(Store(Store(Store(Store(Store(hA,
                  "mapping", Zeros(<<Prod(mesh)>>)),
                  "mesh_points", Zeros(<<Prod(mesh), 3>>)),
                  r_q, NormalizeQpoints(hA[qref])),
                  r_mesh, hA["arg.mesh"]),
                  r_shift, hA[is_shift]),
                  r_rot, rotations)
        args == ( "mesh_points" :> "mesh_points" @@ "mapping" :> "mapping" @@
                  "mesh" :> r_mesh @@ "is_shift" :> r_shift @@
                  "rotations" :> r_rot @@ "qpoints" :> r_q )
        h1 == NativeCall(h0, ArgRefs(args), s)
    IN Return("get_stabilized_reciprocal_mesh", <<"stabilized_reciprocal_mesh">>,
              caller, h0, h1, args, BoolToInt(is_time_reversal),
              <<h1["mapping"], h1["mesh_points"]>>)

\* -------------------------------------- get_triplets_reciprocal_mesh_at_q
get_triplets_reciprocal_mesh_at_q(fixed_grid_number, mesh, rotations, is_time_reversal, s) ==
    LET caller == ("arg.mesh" :> Arr(<<3>>, mesh)) @@
                  ("arg.rotations" :> rotations)
        hA == caller @@ defaults
        r_mesh == Copy(NpArray("arg.mesh", "mesh.intc"), "mesh")
        r_rot == Copy(NpArray("arg.rotations", "rotations.intc"), "rotations")
        h0 == Store(Store(Store(Store(Store(hA,
                  "weights", Zeros(<<Prod(mesh)>>)),
                  "third_q", Zeros(<<Prod(mesh)>>)),
                  "mesh_points", Zeros(<<Prod(mesh), 3>>)),
                  r_mesh, hA["arg.mesh"]),
                  r_rot, rotations)
        args == ( "weights" :> "weights" @@ "mesh_points" :> "mesh_points" @@
                  "third_q" :> "third_q" @@ "mesh" :> r_mesh @@
                  "rotations" :> r_rot )
        h1 == NativeCall(h0, ArgRefs(args), s)
    IN Return("get_triplets_reciprocal_mesh_at_q",
              <<"triplets_reciprocal_mesh_at_q">>, caller, h0, h1, args,
              fixed_grid_number,
              <<h1["weights"], h1["third_q"], h1["mesh_points"]>>)

\* --------------------------------------------------- get_BZ_triplets_at_q
\* (weights > 0).sum()
CountPositive(a) == Cardinality({i \in 1..Len(a.data) : a.data[i] > 0})

\* A weights array as get_triplets_reciprocal_mesh_at_q returns it, with
\* nz of its entries positive.
Weights(mesh, nz) ==
    Arr(<<Prod(mesh)>>, [i \in 1..Prod(mesh) |-> IF i <= nz THEN 2 ELSE 0])

BZGridAddress(mesh) ==
    Arr(<<(mesh[1] + 1) * (mesh[2] + 1) * (mesh[3] + 1), 3>>,
        [i \in 1..(3 * (mesh[1] + 1) * (mesh[2] + 1) * (mesh[3] + 1)) |-> 6 + (i % 3)])

BZMap(mesh) ==
    Arr(<<8 * Prod(mesh)>>, [i \in 1..(8 * Prod(mesh)) |-> 6 + (i % 2)])

get_BZ_triplets_at_q(grid_point, mesh, weights, num_ir_ret, s) ==
    LET caller == ("arg.bz_grid_address" :> BZGridAddress(mesh)) @@
                  ("arg.bz_map" :> BZMap(mesh)) @@
                  ("arg.weights" :> weights) @@
                  ("arg.mesh" :> Arr(<<3>>, mesh))
        hA == caller @@ defaults
        num_ir_tripltes == CountPositive(weights)
        r_mesh == Copy(NpArray("arg.mesh", "mesh.intc"), "mesh")
        h0 == Store(Store(hA,
                  "triplets", Zeros(<<num_ir_tripltes, 3>>)),
                  r_mesh, hA["arg.mesh"])
        args == ( "triplets" :> "triplets" @@
                  "bz_grid_address" :> "arg.bz_grid_address" @@
                  "bz_map" :> "arg.bz_map" @@ "weights" :> "arg.weights" @@
                  "mesh" :> r_mesh )
        h1 == NativeCall(h0, ArgRefs(args), s)
    IN Return("get_BZ_triplets_at_q", <<"BZ_triplets_at_q">>, caller,
              h0, h1, args, num_ir_ret, h1["triplets"])

\* --------------------------------------- get_triplets_tetrahedra_vertices
Triplets(n) == Arr(<<n, 3>>, [i \in 1..(3 * n) |-> 6 + (i % 3)])

RelativeGridAddress ==
    Arr(<<24, 4, 3>>, [i \in 1..(24 * 4 * 3) |-> 6 + (i % 2)])

get_triplets_tetrahedra_vertices(mesh, num_tripltes, num_ir_ret, s) ==
    LET caller == ("arg.relative_grid_address" :> RelativeGridAddress) @@
                  ("arg.mesh" :> Arr(<<3>>, mesh)) @@
                  ("arg.triplets" :> Triplets(num_tripltes)) @@
                  ("arg.bz_grid_address" :> BZGridAddress(mesh)) @@
                  ("arg.bz_map" :> BZMap(mesh))
        hA == caller @@ defaults
        r_mesh == Copy(NpArray("arg.mesh", "mesh.intc"), "mesh")
        h0 == Store(Store(hA,
                  "vertices", Zeros(<<hA["arg.triplets"].shape[1], 2, 24, 4>>)),
                  r_mesh, hA["arg.mesh"])
        args == ( "vertices" :> "vertices" @@
                  "relative_grid_address" :> "arg.relative_grid_address" @@
                  "mesh" :> r_mesh @@ "triplets" :> "arg.triplets" @@
                  "bz_grid_address" :> "arg.bz_grid_address" @@
                  "bz_map" :> "arg.bz_map" )
        h1 == NativeCall(h0, ArgRefs(args), s)
    IN Return("get_triplets_tetrahedra_vertices",
              <<"triplets_tetrahedra_vertices">>, caller, h0, h1, args,
              num_ir_ret, h1["vertices"])

\* ----------------------------------- get_tetrahedra_relative_grid_address
get_tetrahedra_relative_grid_address(reciprocal_lattice, s) ==
    LET caller == "arg.reciprocal_lattice" :> Arr(<<3, 3>>, reciprocal_lattice)
        hA == caller @@ defaults
        r_lat == Copy(NpArray("arg.reciprocal_lattice", "reciprocal_lattice.double"),
                      "reciprocal_lattice")
        h0 == Store(Store(hA,
                  "relative_grid_address", Zeros(<<24, 4, 3>>)),
                  r_lat, hA["arg.reciprocal_lattice"])
        args == ( "relative_grid_address" :> "relative_grid_address" @@
                  "reciprocal_lattice" :> r_lat )
        h1 == NativeCall(h0, ArgRefs(args), s)
    IN Return("get_tetrahedra_relative_grid_address",
              <<"tetrahedra_relative_grid_address">>, caller, h0, h1, args,
              None, h1["relative_grid_address"])

\* -------------------------------------- get_tetrahedra_integration_weight
get_tetrahedra_integration_weight_routines(is_float) ==
    IF is_float THEN <<"tetrahedra_integration_weight">>
    ELSE <<"tetrahedra_integration_weight_at_omegas">>

\* The energies of the 24 x 4 tetrahedra vertices.
TetrahedraOmegas == Arr(<<24, 4>>, [i \in 1..96 |-> 6 + (i % 4)])

\* omegas is a float (is_float, n unused) or a sequence of n frequencies.
get_tetrahedra_integration_weight(is_float, n, ret, s) ==
    LET caller == ("arg.tetrahedra_omegas" :> TetrahedraOmegas) @@
                  (IF is_float THEN NoObjs
                   ELSE "arg.omegas" :> Arr(<<n>>, [i \in 1..n |-> 6 + i]))
        hA == caller @@ defaults
        r_tet == Copy(NpArray("arg.tetrahedra_omegas", "tetrahedra_omegas.double"),
                      "tetrahedra_omegas")
        r_om == NpArray("arg.omegas", "omegas")
        h0 == IF is_float
              THEN Store(hA, r_tet, hA["arg.tetrahedra_omegas"])
              ELSE Store(Store(Store(hA,
                       "integration_weights", Zeros(<<n>>)),
                       r_om, hA["arg.omegas"]),
                       r_tet, hA["arg.tetrahedra_omegas"])
        args == IF is_float THEN "tetrahedra_omegas" :> r_tet
                ELSE ( "integration_weights" :> "integration_weights" @@
                       "omegas" :> r_om @@ "tetrahedra_omegas" :> r_tet )
        h1 == NativeCall(h0, ArgRefs(args), s)
    IN Return("get_tetrahedra_integration_weight",
              get_tetrahedra_integration_weight_routines(is_float),
              caller, h0, h1, args,
              IF is_float THEN ret ELSE None,
              IF is_float THEN ret ELSE h1["integration_weights"])

\* --------------------------------------------------------------- Next
\* The function has returned: its locals and buffers are dropped, the
\* (synchronous) caller is free to make the next call: a call starts
\* only when no call is in progress (Idle).  Only the module
\* level objects survive.
CallReturned ==
    /\ op # "none"
    /\ op' = "none"
    /\ calls' = <<>>
    /\ caller_before' = NoObjs
    /\ caller_after' = NoObjs
    /\ nat_in' = NoObjs
    /\ nat_out' = NoObjs
    /\ nat_ret' = None
    /\ result' = None
    /\ UNCHANGED defaults

\* The counts the native routines report range over the capacity of the
\* buffers they are handed (the native library writes no more entries than
\* a buffer holds); the primitive-cell search may also report failure with
\* a count that is zero or negative.
GetSymmetry ==
    /\ Idle
    /\ \E bulk \in Bulks, use_magmoms \in BOOLEAN, s \in Seeds :
            \E num_sym \in 0..(48 * get_number_of_atoms(bulk)) :
            get_symmetry(bulk, use_magmoms, num_sym, s)

RefineCell ==
    /\ Idle
    /\ \E bulk \in Bulks, s \in Seeds :
            \E k \in 0..RefineCapacity(get_number_of_atoms(bulk)) :
            refine_cell(bulk, k, s)

FindPrimitive ==
    /\ Idle
    /\ \E bulk \in Bulks, s \in Seeds :
            \E k \in (-1)..get_number_of_atoms(bulk) :
            find_primitive(bulk, k, s)

GetSymmetryDataset ==
    /\ Idle
    /\ \E bulk \in Bulks, sg \in SpaceGroups, s \in Seeds, x \in WyckoffIndices :
            \E y \in WyckoffPartners(x) :
            get_symmetry_dataset(bulk,
                NativeDataset(get_number_of_atoms(bulk), sg, x, y), s)

GetSpacegroup ==
    /\ Idle
    /\ \E bulk \in Bulks, ret \in SpacegroupStrings, s \in Seeds :
            get_spacegroup(bulk, ret, s)

GetPointgroup ==
    /\ Idle
    /\ \E rotations \in RotationLists, ret \in PointGroups, s \in Seeds :
            get_pointgroup(rotations, ret, s)

GetIrReciprocalMesh ==
    /\ Idle
    /\ \E mesh \in Meshes, bulk \in Bulks, use_default \in BOOLEAN,
          is_time_reversal \in BOOLEAN, s \in Seeds :
            get_ir_reciprocal_mesh(mesh, bulk, use_default, is_time_reversal, s)

RelocateBZGridAddress ==
    /\ Idle
    /\ \E mesh \in Meshes, rl \in Cells, use_default \in BOOLEAN, s \in Seeds :
            \E n \in 0..BZGridRows(mesh) :
                relocate_BZ_grid_address(mesh, rl, use_default, n, s)

GetStabilizedReciprocalMesh ==
    /\ Idle
    /\ \E mesh \in Meshes, rotations \in RotationLists, use_default \in BOOLEAN,
          is_time_reversal \in BOOLEAN, use_default_q \in BOOLEAN,
          qarg \in QpointArgs, s \in Seeds :
            get_stabilized_reciprocal_mesh(mesh, rotations, use_default,
                is_time_reversal, use_default_q, qarg, s)

GetTripletsReciprocalMeshAtQ ==
    /\ Idle
    /\ \E mesh \in Meshes, rotations \in RotationLists,
          is_time_reversal \in BOOLEAN, s \in Seeds :
            \E g \in {0, Prod(mesh) - 1} :
                get_triplets_reciprocal_mesh_at_q(g, mesh, rotations,
                                                  is_time_reversal, s)

GetBZTripletsAtQ ==
    /\ Idle
    /\ \E mesh \in Meshes, s \in Seeds :
            \E nz \in 0..Prod(mesh) :
                get_BZ_triplets_at_q(0, mesh, Weights(mesh, nz), nz, s)

GetTripletsTetrahedraVertices ==
    /\ Idle
    /\ \E mesh \in Meshes, n \in 0..2, s \in Seeds :
            get_triplets_tetrahedra_vertices(mesh, n, n, s)

GetTetrahedraRelativeGridAddress ==
    /\ Idle
    /\ \E rl \in Cells, s \in Seeds :
            get_tetrahedra_relative_grid_address(rl, s)

GetTetrahedraIntegrationWeight ==
    /\ Idle
    /\ \E is_float \in BOOLEAN, n \in 0..2, ret \in {3, 4}, s \in Seeds :
            get_tetrahedra_integration_weight(is_float, n, ret, s)

Next ==
    \/ GetSymmetry
    \/ GetSymmetryDataset
    \/ GetSpacegroup
    \/ GetPointgroup
    \/ RefineCell
    \/ FindPrimitive
    \/ GetIrReciprocalMesh
    \/ RelocateBZGridAddress
    \/ GetStabilizedReciprocalMesh
    \/ GetTripletsReciprocalMeshAtQ
    \/ GetBZTripletsAtQ
    \/ GetTripletsTetrahedraVertices
    \/ GetTetrahedraRelativeGridAddress
    \/ GetTetrahedraIntegrationWeight
    \/ CallReturned

Spec == Init /\ [][Next]_vars

\* ============================================================ properties
\* Auxiliaries of the properties below.
Wrote(a) == a \in DOMAIN nat_in /\ nat_out[a] # nat_in[a]

\* res is exactly the first k rows of buffer buf, in the same order.
IsFirstRows(res, buf, k) ==
    /\ res.shape = <<k>> \o Tail(buf.shape)
    /\ Len(res.data) = k * RowLen(buf)
    /\ \A i \in 1..(k * RowLen(buf)) : res.data[i] = buf.data[i]

AllZero(a) == \A i \in 1..Len(a.data) : a.data[i] = 0

\* m is a 3 x 3 array and t its transpose.
IsTransposeOf(t, m) ==
    /\ t.shape = <<3, 3>>
    /\ m.shape = <<3, 3>>
    /\ \A i \in 1..3 : \A j \in 1..3 :
           t.data[3 * (i - 1) + j] = m.data[3 * (j - 1) + i]

StructureOps == {"get_symmetry", "get_symmetry_dataset", "get_spacegroup",
                 "refine_cell", "find_primitive", "get_ir_reciprocal_mesh"}

C2_GetSymmetry ==
    op = "get_symmetry" =>
        LET n == caller_before["bulk.numbers"].shape[1]
        IN /\ nat_in["rotation"].shape = <<48 * n, 3, 3>>
           /\ nat_in["translation"].shape = <<48 * n, 3>>
           /\ AllZero(nat_in["rotation"])
           /\ AllZero(nat_in["translation"])
           /\ (0 <= nat_ret /\ nat_ret <= 48 * n) =>
                 /\ DOMAIN result = {"rotations", "translations"}
                 /\ IsFirstRows(result["rotations"], nat_out["rotation"], nat_ret)
                 /\ IsFirstRows(result["translations"], nat_out["translation"],
                                nat_ret)
                 /\ result["rotations"].shape[1] = result["translations"].shape[1]

C2_Witness ==
    /\ op = "get_symmetry"
    /\ nat_ret > 48
    /\ nat_ret < 96
    /\ Wrote("rotation")
    /\ Wrote("translation")

\* C3: every invocation of a public operation makes exactly one native
\* call: get_symmetry the collinear-spin routine or the plain one, never
\* both; get_tetrahedra_integration_weight the single-frequency routine
\* or the at-omegas one, never both; every other operation its one routine.
C3_Routine ==
    ( "get_symmetry_dataset" :> "dataset" @@
      "get_spacegroup" :> "spacegroup" @@
      "get_pointgroup" :> "pointgroup" @@
      "refine_cell" :> "refine_cell" @@
      "find_primitive" :> "primitive" @@
      "get_ir_reciprocal_mesh" :> "ir_reciprocal_mesh" @@
      "relocate_BZ_grid_address" :> "BZ_grid_address" @@
      "get_stabilized_reciprocal_mesh" :> "stabilized_reciprocal_mesh" @@
      "get_triplets_reciprocal_mesh_at_q" :> "triplets_reciprocal_mesh_at_q" @@
      "get_BZ_triplets_at_q" :> "BZ_triplets_at_q" @@
      "get_triplets_tetrahedra_vertices" :> "triplets_tetrahedra_vertices" @@
      "get_tetrahedra_relative_grid_address" :>
          "tetrahedra_relative_grid_address" )

C3_OneNativeCall ==
    op # "none" =>
        /\ Len(calls) = 1
        /\ op = "get_symmetry" =>
              calls[1] = IF "magmoms" \in DOMAIN nat_in
                         THEN "symmetry_with_collinear_spin" ELSE "symmetry"
        /\ op = "get_tetrahedra_integration_weight" =>
              calls[1] = IF "integration_weights" \in DOMAIN nat_in
                         THEN "tetrahedra_integration_weight_at_omegas"
                         ELSE "tetrahedra_integration_weight"
        /\ op \in DOMAIN C3_Routine => calls[1] = C3_Routine[op]

C3_Witness ==
    /\ op = "get_symmetry"
    /\ "magmoms" \in DOMAIN nat_in
    /\ calls = <<"symmetry_with_collinear_spin">>

\* C4: no state is carried from one call to the next: whatever the native
\* library writes into the buffers it is handed, the module-level objects
\* keep their initial values; the shared default is_shift arrays stay zero.
C4_NoModuleState ==
    /\ \A d \in {"ir.is_shift", "bz.is_shift", "stab.is_shift"} :
           defaults[d].shape = <<3>> /\ AllZero(defaults[d])
    /\ defaults["stab.qpoints"] = Arr(<<0>>, <<>>)

C4_Witness ==
    /\ op = "get_stabilized_reciprocal_mesh"
    /\ "arg.is_shift" \notin DOMAIN caller_before
    /\ "arg.qpoints" \notin DOMAIN caller_before
    /\ Wrote("is_shift")
    /\ Wrote("qpoints")

\* C5: relocate_BZ_grid_address allocates bz_grid_address with
\* (m0+1)*(m1+1)*(m2+1) rows of 3 and bz_map with (2*m0)*(2*m1)*(2*m2)
\* entries, and returns the first num_bz_ir rows of bz_grid_address with
\* the whole bz_map.
C5_RelocateBZ ==
    op = "relocate_BZ_grid_address" =>
        LET m == caller_before["arg.mesh"].data
            rows == (m[1] + 1) * (m[2] + 1) * (m[3] + 1)
        IN /\ nat_in["bz_grid_address"].shape = <<rows, 3>>
           /\ nat_in["bz_map"].shape = <<8 * m[1] * m[2] * m[3]>>
           /\ (0 <= nat_ret /\ nat_ret <= rows) =>
                 /\ Len(result) = 2
                 /\ IsFirstRows(result[1], nat_out["bz_grid_address"], nat_ret)
                 /\ result[2] = nat_out["bz_map"]
                 /\ Len(result[2].data) = 8 * m[1] * m[2] * m[3]

C5_Witness ==
    /\ op = "relocate_BZ_grid_address"
    /\ caller_before["arg.mesh"].data = <<1, 2, 1>>
    /\ nat_ret = 7
    /\ Wrote("bz_grid_address")
    /\ Wrote("bz_map")

\* C6: get_symmetry_dataset returns a mapping with exactly the nine keys,
\* key i filled from value i of the native result, and 'wyckoffs' has the
\* length and order of the native index list, index x in 0..51 replaced by
\* the x-th character of a..z followed by A..Z, distinct indices giving
\* distinct letters.
C6_Lower == << "a", "b", "c", "d", "e", "f", "g", "h", "i", "j", "k", "l", "m",
               "n", "o", "p", "q", "r", "s", "t", "u", "v", "w", "x", "y", "z" >>

C6_Upper == << "A", "B", "C", "D", "E", "F", "G", "H", "I", "J", "K", "L", "M",
               "N", "O", "P", "Q", "R", "S", "T", "U", "V", "W", "X", "Y", "Z" >>

C6_Letter(x) == IF x < 26 THEN C6_Lower[x + 1] ELSE C6_Upper[x - 25]

C6_Dataset ==
    op = "get_symmetry_dataset" =>
        /\ DOMAIN result = {"number", "international", "hall",
                            "transformation_matrix", "origin_shift",
                            "rotations", "translations", "wyckoffs",
                            "equivalent_atoms"}
        /\ result["number"] = nat_ret[1]
        /\ result["international"] = Strip(nat_ret[2])
        /\ result["hall"] = Strip(nat_ret[3])
        /\ result["transformation_matrix"] = nat_ret[4]
        /\ result["origin_shift"] = nat_ret[5]
        /\ result["rotations"] = nat_ret[6]
        /\ result["translations"] = nat_ret[7]
        /\ result["equivalent_atoms"] = nat_ret[9]
        /\ Len(result["wyckoffs"]) = Len(nat_ret[8])
        /\ \A i \in 1..Len(nat_ret[8]) :
               /\ nat_ret[8][i] \in 0..51
               /\ result["wyckoffs"][i] = C6_Letter(nat_ret[8][i])
               /\ nat_ret[8][i] = 0 => result["wyckoffs"][i] = "a"
               /\ nat_ret[8][i] = 25 => result["wyckoffs"][i] = "z"
               /\ nat_ret[8][i] = 26 => result["wyckoffs"][i] = "A"
               /\ nat_ret[8][i] = 51 => result["wyckoffs"][i] = "Z"
        /\ \A i, j \in 1..Len(nat_ret[8]) :
               nat_ret[8][i] # nat_ret[8][j] =>
                   result["wyckoffs"][i] # result["wyckoffs"][j]

C6_Witness ==
    /\ op = "get_symmetry_dataset"
    /\ nat_ret[8] = <<25, 51>>
    /\ result["wyckoffs"] = <<"z", "Z">>
    /\ result["international"] = <<"F", "m", "-", "3", "m">>

\* C7: the lattice is transposed on the way into the native library and
\* transposed back on the way out: for find_primitive (cell found) and
\* refine_cell the returned lattice is the transpose of what the native
\* call left in the lattice buffer, and equals the host cell when the
\* native call left the buffer unchanged.
C7_Lattice ==
    ( \/ op = "refine_cell"
      \/ (op = "find_primitive" /\ nat_ret > 0) ) =>
        /\ IsTransposeOf(nat_in["lattice"], caller_before["bulk.cell"])
        /\ IsTransposeOf(result[1], nat_out["lattice"])
        /\ nat_out["lattice"] = nat_in["lattice"] =>
               result[1] = caller_before["bulk.cell"]

C7_Witness ==
    /\ op = "refine_cell"
    /\ caller_before["bulk.cell"].data = <<1, 2, 3, 4, 5, 6, 7, 8, 9>>
    /\ Wrote("lattice")
    /\ result[1].data[2] # result[1].data[4]

\* C8: the operations taking a crystal structure pass only fresh copies of
\* its cell, scaled positions and atomic numbers to the native library:
\* whatever the native call writes, the caller's three arrays are the
\* same after the call as before it.
C8_StructureUntouched ==
    op \in StructureOps =>
        \A x \in {"bulk.cell", "bulk.positions", "bulk.numbers"} :
            caller_after[x] = caller_before[x]

C8_Witness ==
    /\ op = "get_ir_reciprocal_mesh"
    /\ Wrote("lattice")
    /\ Wrote("positions")
    /\ Wrote("numbers")

\* C9: refine_cell hands the native call position and number buffers of
\* 4*N entries, the first N the input atoms and the rest zero, and for a
\* reported count 0 <= k <= 4*N returns the first k positions and first k
\* numbers (equal lengths); it never returns None, a count of 0 giving the
\* lattice with two empty arrays.
C9_RefineCell ==
    op = "refine_cell" =>
        LET n == caller_before["bulk.numbers"].shape[1]
            pos == nat_in["pos"]
            num == nat_in["numbers"]
        IN /\ pos.shape = <<4 * n, 3>>
           /\ num.shape = <<4 * n>>
           /\ IsFirstRows(caller_before["bulk.positions"], pos, n)
           /\ IsFirstRows(caller_before["bulk.numbers"], num, n)
           /\ \A i \in (3 * n + 1)..(12 * n) : pos.data[i] = 0
           /\ \A i \in (n + 1)..(4 * n) : num.data[i] = 0
           /\ Len(result) = 3
           /\ \A i \in 1..3 : result[i] # None
           /\ (0 <= nat_ret /\ nat_ret <= 4 * n) =>
                 /\ IsFirstRows(result[2], nat_out["pos"], nat_ret)
                 /\ IsFirstRows(result[3], nat_out["numbers"], nat_ret)
                 /\ result[2].shape[1] = result[3].shape[1]
           /\ nat_ret = 0 =>
                 /\ result[2] = Arr(<<0, 3>>, <<>>)
                 /\ result[3] = Arr(<<0>>, <<>>)

C9_Witness ==
    /\ op = "refine_cell"
    /\ caller_before["bulk.numbers"].shape[1] = 2
    /\ nat_ret = 7
    /\ Wrote("pos")
    /\ Wrote("numbers")

\* C10: get_stabilized_reciprocal_mesh always hands the native call a
\* two-dimensional q-point list with three columns: a single 3-vector
\* becomes the list of that one point, an empty argument (the default)
\* the list holding (0, 0, 0), an n x 3 list is passed on unchanged; the
\* returned mapping has prod(mesh) entries, mesh_points prod(mesh) rows of 3.
C10_Qpoints ==
    op = "get_stabilized_reciprocal_mesh" =>
        LET q == nat_in["qpoints"]
            m == caller_before["arg.mesh"].data
            given == "arg.qpoints" \in DOMAIN caller_before
            arg == caller_before["arg.qpoints"]
        IN /\ Len(q.shape) = 2
           /\ q.shape[2] = 3
           /\ Len(q.data) = 3 * q.shape[1]
           /\ ~given => q = Arr(<<1, 3>>, <<0, 0, 0>>)
           /\ (given /\ arg.shape = <<0>>) => q = Arr(<<1, 3>>, <<0, 0, 0>>)
           /\ (given /\ arg.shape = <<3>>) =>
                  q.shape = <<1, 3>> /\ q.data = arg.data
           /\ (given /\ Len(arg.shape) = 2) => q = arg
           /\ Len(result) = 2
           /\ result[1].shape = <<m[1] * m[2] * m[3]>>
           /\ Len(result[1].data) = m[1] * m[2] * m[3]
           /\ result[2].shape = <<m[1] * m[2] * m[3], 3>>
           /\ Len(result[2].data) = 3 * m[1] * m[2] * m[3]

C10_Witness ==
    /\ op = "get_stabilized_reciprocal_mesh"
    /\ "arg.qpoints" \in DOMAIN caller_before
    /\ caller_before["arg.qpoints"].shape = <<3>>
    /\ nat_in["qpoints"] = Arr(<<1, 3>>, <<1, 2, 3>>)

====
